---- MODULE Spec2Model ----
(***************************************************************************)
(* Model of SIH.py, a Streamlit irrigation advisor.  Every run of the      *)
(* script reads the sidebar widgets, computes today's advice               *)
(* (irrigation_need_liters), classifies the moisture status and builds a   *)
(* 7-day plan with per-day temperature jitter drawn from numpy's global    *)
(* random generator.                                                       *)
(*                                                                         *)
(* Number representation.  The script computes in binary floating point;   *)
(* the model computes in decimal fixed point with floor rounding:          *)
(*   temperatures          tenths of a degree Celsius                      *)
(*   vwc, target range     1e-4 (so 0.18 is 1800)                          *)
(*   kc                    hundredths;  root depth: tenths of a metre      *)
(*   eto, etc, deficit     thousandths of a millimetre                     *)
(*   sqrt(td)              thousandths; deficit_frac: thousandths          *)
(*   liters                thousandths of a liter                          *)
(*   area value            hundredths (the widget's step is 0.01)          *)
(*   area in m2            an exact decimal <<w, f1, f2, f3>> standing for *)
(*                         w + f1/1e4 + f2/1e8 + f3/1e12, 0 <= fi < 1e4    *)
(*   plan rows             hundredths (round(x, 2))                        *)
(***************************************************************************)
EXTENDS Integers, Sequences, FiniteSets, TLC

VARIABLES pc, inp, rng, vwc, area_m2, advice, status,
          today, midnights, dates, plan_data, weather_d, prev,
          args, eto_ret, area_ret, need_ret, need_prev

vars == <<pc, inp, rng, vwc, area_m2, advice, status,
          today, midnights, dates, plan_data, weather_d, prev,
          args, eto_ret, area_ret, need_ret, need_prev>>

progVars == <<pc, inp, rng, vwc, area_m2, advice, status,
              today, midnights, dates, plan_data, weather_d, prev>>

calcVars == <<args, eto_ret, area_ret, need_ret, need_prev>>

Max(a, b) == IF a >= b THEN a ELSE b

Min(a, b) == IF a <= b THEN a ELSE b

----------------------------------------------------------------------------
(* Domain constants, SIH.py lines 12-36.                                   *)

Soils == {"Sandy", "Loam", "Clay"}

Stages == {"Initial", "Vegetative", "Flowering", "Fruiting"}

\* (low, high) of the target moisture range, in 1e-4.
SOIL_TARGET_RANGE(soil_type) ==
    CASE soil_type = "Sandy" -> <<1000, 1800>>
      [] soil_type = "Loam"  -> <<1800, 2800>>
      [] soil_type = "Clay"  -> <<2500, 3500>>

SOIL_RAW_MM_PER_M(soil_type) ==
    CASE soil_type = "Sandy" -> 60
      [] soil_type = "Loam"  -> 90
      [] soil_type = "Clay"  -> 120

\* tenths of a metre
ROOT_DEPTH_M(stage) ==
    CASE stage = "Initial"    -> 3
      [] stage = "Vegetative" -> 6
      [] stage = "Flowering"  -> 8
      [] stage = "Fruiting"   -> 10

\* hundredths
KC_STAGE(stage) ==
    CASE stage = "Initial"    -> 60
      [] stage = "Vegetative" -> 95
      [] stage = "Flowering"  -> 105
      [] stage = "Fruiting"   -> 90

----------------------------------------------------------------------------
(* Exact decimals <<w, f1, f2, f3>> for areas in square metres.            *)

FxInt(n) == <<n, 0, 0, 0>>

FxMulInt(x, k) ==
    LET p3 == x[4] * k
        p2 == x[3] * k + (p3 \div 10000)
        p1 == x[2] * k + (p2 \div 10000)
    IN  <<x[1] * k + (p1 \div 10000), p1 % 10000, p2 % 10000, p3 % 10000>>

\* x / k for k > 0, the digits past 1e-12 dropped
FxDivInt(x, k) ==
    LET c1 == (x[1] % k) * 10000 + x[2]
        c2 == (c1 % k) * 10000 + x[3]
        c3 == (c2 % k) * 10000 + x[4]
    IN  <<x[1] \div k, c1 \div k, c2 \div k, c3 \div k>>

FxLeq(x, y) ==
    \/ x[1] < y[1]
    \/ x[1] = y[1] /\ x[2] < y[2]
    \/ x[1] = y[1] /\ x[2] = y[2] /\ x[3] < y[3]
    \/ x[1] = y[1] /\ x[2] = y[2] /\ x[3] = y[3] /\ x[4] <= y[4]

\* floor(t * x) for an integer t >= 0
FxTimes(t, x) ==
    t * x[1] + ((((((t * x[4]) \div 10000) + t * x[3]) \div 10000) + t * x[2]) \div 10000)

----------------------------------------------------------------------------
(* Helper functions, SIH.py lines 41-66.                                   *)

Units == {"acre", "hectare", "m2"}

AcreFactor == <<4046, 8564, 2240, 0>>

HectareFactor == <<10000, 0, 0, 0>>

\* mutant: an unrecognized unit yields 0 instead of the value
area_to_sq_m_unknown_zero(area_value, unit) ==
    IF unit = "acre" THEN FxDivInt(FxMulInt(AcreFactor, area_value), 100)
    ELSE IF unit = "hectare" THEN FxDivInt(FxMulInt(HectareFactor, area_value), 100)
    ELSE IF unit = "m2" THEN FxDivInt(FxInt(area_value), 100)
    ELSE FxInt(0)

\* area_value in hundredths; the result is the exact decimal product
area_to_sq_m(area_value, unit) ==
    IF unit = "acre" THEN FxDivInt(FxMulInt(AcreFactor, area_value), 100)
    ELSE IF unit = "hectare" THEN FxDivInt(FxMulInt(HectareFactor, area_value), 100)
    ELSE IF unit = "m2" THEN FxDivInt(FxInt(area_value), 100)
    ELSE FxDivInt(FxInt(area_value), 100)

RECURSIVE isqrt_from(_, _)
isqrt_from(x, r) ==
    IF r <= x \div r THEN r ELSE isqrt_from(x, (r + x \div r) \div 2)

\* floor of the integer square root
isqrt(x) == IF x = 0 THEN 0 ELSE isqrt_from(x, x)

\* mutant: td without the max(..., 0) guard
temp_span_unguarded(tmin_c, tmax_c) == tmax_c - tmin_c

\* td = max(tmax_c - tmin_c, 0), tenths of a degree
temp_span(tmin_c, tmax_c) == Max(tmax_c - tmin_c, 0)

\* math.sqrt(td) in thousandths; raises ValueError on a negative argument
math_sqrt(td) ==
    IF td < 0 THEN [raised |-> TRUE, v |-> 0]
    ELSE [raised |-> FALSE, v |-> isqrt(td * 100000)]

\* mutant: eto without the outer max(0.0, ...)
eto_formula_unclamped(tmin_c, tmax_c, root) ==
    (23 * (tmin_c + tmax_c + 356) * root) \div 20000

\* eto in thousandths of a mm:
\*   0.0023 * (tmean + 17.8) * sqrt(td) * 10, tmean + 17.8 = (tmin + tmax + 356) / 20
eto_formula(tmin_c, tmax_c, root) ==
    Max(0, (23 * (tmin_c + tmax_c + 356) * root) \div 20000)

simple_eto_mm_per_day(tmin_c, tmax_c) ==
    LET r == math_sqrt(temp_span(tmin_c, tmax_c))
    IN  IF r.raised THEN [raised |-> TRUE, eto |-> 0]
        ELSE [raised |-> FALSE, eto |-> eto_formula(tmin_c, tmax_c, r.v)]

\* kc * eto, thousandths of a mm
crop_etc(stage, eto) == (KC_STAGE(stage) * eto) \div 100

\* max(target_low, 1e-6), in 1e-6
deficit_den(target_low) == Max(target_low * 100, 1)

\* mutant: the deficit numerator without the max(..., 0.0) clamp
deficit_num_unclamped(target_low, current_vwc) == target_low - current_vwc

\* max(target_low - current_vwc, 0.0), in 1e-4
deficit_num(target_low, current_vwc) == Max(target_low - current_vwc, 0)

\* deficit_frac * raw_mm_per_m * root_m in thousandths of a mm, deficit_frac
\* kept to three decimals
deficit_mm_of(soil_type, stage, num, den) ==
    (((num * 100 * 1000) \div den) * SOIL_RAW_MM_PER_M(soil_type) * ROOT_DEPTH_M(stage)) \div 10

\* max(0.0, deficit_mm + etc_mm)
total_mm_of(deficit_mm, etc_mm) == Max(0, deficit_mm + etc_mm)

\* mutant: liters = total_mm * abs(area_m2)
liters_of_abs(total_mm, area) ==
    IF area[1] < 0 THEN FxTimes(total_mm, FxMulInt(area, -1)) ELSE FxTimes(total_mm, area)

\* liters = total_mm * area_m2 (1 mm over 1 m2 is 1 liter)
liters_of(total_mm, area) == FxTimes(total_mm, area)

Raised == [raised |-> TRUE, liters |-> 0, deficit_mm |-> 0, etc_mm |-> 0]

irrigation_need_liters(soil_type, stage, current_vwc, target_low, area, tmin_c, tmax_c) ==
    LET den == deficit_den(target_low)
        e   == simple_eto_mm_per_day(tmin_c, tmax_c)
    IN  IF den = 0 \/ e.raised THEN Raised
        ELSE LET deficit_mm == deficit_mm_of(soil_type, stage,
                                             deficit_num(target_low, current_vwc), den)
                 etc_mm     == crop_etc(stage, e.eto)
             IN  [raised     |-> FALSE,
                  liters     |-> liters_of(total_mm_of(deficit_mm, etc_mm), area),
                  deficit_mm |-> deficit_mm,
                  etc_mm     |-> etc_mm]

----------------------------------------------------------------------------
(* numpy's global generator, used at lines 95, 96, 137 and 138.  Its state *)
(* is one of RngMod values; a draw reads the state and advances it.        *)

RngMod == 4

\* np.random.seed(seed) raises ValueError unless 0 <= seed < 2**32
seed_ok(seed) == seed >= 0

\* mutant: the seed call leaves the generator as it was
seed_state_kept(seed) == rng

\* the state np.random.seed(seed) leaves
seed_state(seed) == seed % RngMod

rng_next(s) == (s + 1) % RngMod

\* np.random.uniform(-1, 1), tenths of a degree, in [-10, 10)
random_uniform(s) == 5 * (s % 4) - 10

\* np.random.normal(0.16, 0.03) in 1e-4: 1600 + 300 * z, z in tenths
random_normal(s) == 1600 + 30 * <<0, -7, 150, -60>>[(s % 4) + 1]

\* np.clip(x, 0, 0.6)
np_clip(x) == Min(Max(x, 0), 6000)

----------------------------------------------------------------------------
(* Dates.  A date is its proleptic Gregorian ordinal (date.toordinal());   *)
(* strftime("%d-%m-%Y") turns it into <<day, month, year>>.                *)

DAYS_BEFORE_MONTH == <<0, 31, 59, 90, 120, 151, 181, 212, 243, 273, 304, 334>>

DAYS_IN_MONTH == <<31, 28, 31, 30, 31, 30, 31, 31, 30, 31, 30, 31>>

ord2ymd(ordinal) ==
    LET n0   == ordinal - 1
        n400 == n0 \div 146097
        r400 == n0 % 146097
        n100 == r400 \div 36524
        r100 == r400 % 36524
        n4   == r100 \div 1461
        r4   == r100 % 1461
        n1   == r4 \div 365
        n    == r4 % 365
        year == n400 * 400 + 1 + n100 * 100 + n4 * 4 + n1
        leap == n1 = 3 /\ (n4 # 24 \/ n100 = 3)
        m0   == (n + 50) \div 32
        pre0 == DAYS_BEFORE_MONTH[m0] + (IF m0 > 2 /\ leap THEN 1 ELSE 0)
        month == IF pre0 > n THEN m0 - 1 ELSE m0
        pre   == IF pre0 > n
                 THEN pre0 - (DAYS_IN_MONTH[month] + (IF month = 2 /\ leap THEN 1 ELSE 0))
                 ELSE pre0
    IN  IF n1 = 4 \/ n100 = 4 THEN <<31, 12, year - 1>>
        ELSE <<n - pre + 1, month, year>>

strftime(d) == ord2ymd(d)

\* round(x, 2) of a value in thousandths, to hundredths, ties to even
round2(x) ==
    LET q == x \div 10
        r == x % 10
    IN  IF r > 5 \/ (r = 5 /\ q % 2 = 1) THEN q + 1 ELSE q

HorizonDays == 7

----------------------------------------------------------------------------
(* The script, SIH.py lines 77-151.                                        *)

\* the widgets' initial values (lines 79-92)
Defaults ==
    [soil_type |-> "Sandy", area_value |-> 25, area_unit |-> "acre",
     stage |-> "Vegetative", tmin |-> 220, tmax |-> 330,
     mode |-> "manual", vwc_slider |-> 16, seed |-> 42]

\* the values the model lets the user enter
InStages == {"Vegetative", "Flowering"}

InAreas == {<<25, "acre">>, <<0, "m2">>, <<1, "hectare">>}

InTemps == {<<220, 330>>, <<220, 220>>, <<225, 220>>}

InSliders == {5, 16, 18, 28, 35}

InSeeds == {-1, 42}

\* the moisture entry: <<mode, slider value, seed>>
InMoistures ==
    {<<"manual", v, Defaults.seed>> : v \in InSliders}
    \cup {<<"simulate", Defaults.vwc_slider, sd>> : sd \in InSeeds}

StartDays == {738942, 739978}

MaxMidnights == 1

NoAdvice == [raised |-> FALSE, liters |-> 0, deficit_mm |-> 0, etc_mm |-> 0]

NoPrev == [valid |-> FALSE, advice |-> NoAdvice, plan |-> <<>>]

NoArea == FxInt(0)

\* what the rows of a finished run show besides the date
values_of(plan) == [k \in 1..Len(plan) |-> [etc |-> plan[k].etc, liters |-> plan[k].liters]]

\* mutant: the second test reads v >= high
classify_ge(v, low, high) ==
    IF v < low THEN "NeedsWater"
    ELSE IF v >= high THEN "Sufficient"
    ELSE "Monitor"

\* lines 108-113
classify(v, low, high) ==
    IF v < low THEN "NeedsWater"
    ELSE IF v > high THEN "Sufficient"
    ELSE "Monitor"

\* lines 77-100: one run of the script starts and reads the sidebar
Sidebar(i, again) ==
    /\ pc \in {"idle", "done", "failed"}
    /\ inp' = i
    /\ prev' = IF again /\ pc = "done"
               THEN [valid |-> TRUE, advice |-> advice, plan |-> values_of(plan_data)]
               ELSE NoPrev
    /\ advice' = NoAdvice
    /\ status' = "none"
    /\ dates' = <<>>
    /\ plan_data' = <<>>
    /\ weather_d' = <<>>
    /\ IF i.mode = "manual"
       THEN /\ vwc' = i.vwc_slider * 100
            /\ rng' = rng
            /\ area_m2' = area_to_sq_m(i.area_value, i.area_unit)
            /\ pc' = "advisory"
       ELSE IF seed_ok(i.seed)
       THEN /\ vwc' = np_clip(random_normal(seed_state(i.seed)))
            /\ rng' = rng_next(seed_state(i.seed))
            /\ area_m2' = area_to_sq_m(i.area_value, i.area_unit)
            /\ pc' = "advisory"
       ELSE /\ vwc' = 0
            /\ rng' = rng
            /\ area_m2' = NoArea
            /\ pc' = "failed"
    /\ UNCHANGED <<today, midnights>>
    /\ UNCHANGED calcVars

\* The user changes one entry of the sidebar, which reruns the script.
ChangeSoil ==
    \E so \in Soils \ {inp.soil_type} :
        Sidebar([inp EXCEPT !.soil_type = so], FALSE)

ChangeArea ==
    \E a \in InAreas \ {<<inp.area_value, inp.area_unit>>} :
        Sidebar([inp EXCEPT !.area_value = a[1], !.area_unit = a[2]], FALSE)

ChangeStage ==
    \E sg \in InStages \ {inp.stage} :
        Sidebar([inp EXCEPT !.stage = sg], FALSE)

ChangeTemps ==
    \E t \in InTemps \ {<<inp.tmin, inp.tmax>>} :
        Sidebar([inp EXCEPT !.tmin = t[1], !.tmax = t[2]], FALSE)

ChangeMoisture ==
    \E m \in InMoistures \ {<<inp.mode, inp.vwc_slider, inp.seed>>} :
        Sidebar([inp EXCEPT !.mode = m[1], !.vwc_slider = m[2], !.seed = m[3]], FALSE)

\* the script runs with the widgets as they are (first load, refresh, download click)
Rerun == Sidebar(inp, TRUE)

\* lines 100-113
Advisory ==
    /\ pc = "advisory"
    /\ LET range == SOIL_TARGET_RANGE(inp.soil_type)
           r == irrigation_need_liters(inp.soil_type, inp.stage, vwc, range[1],
                                       area_m2, inp.tmin, inp.tmax)
       IN  /\ advice' = r
           /\ status' = IF r.raised THEN "none" ELSE classify(vwc, range[1], range[2])
           /\ pc' = IF r.raised THEN "failed" ELSE "dates"
    /\ UNCHANGED <<inp, rng, vwc, area_m2, today, midnights, dates, plan_data,
                   weather_d, prev>>
    /\ UNCHANGED calcVars

\* line 132: datetime.today() is read once per element; k reads come before
\* midnight and the rest after it (k = HorizonDays: no midnight in between)
BuildDates ==
    /\ pc = "dates"
    /\ \E k \in 0..HorizonDays :
          /\ k < HorizonDays => midnights < MaxMidnights
          /\ dates' = [j \in 1..HorizonDays |->
                          (IF j <= k THEN today ELSE today + 1) + (j - 1)]
          /\ today' = IF k < HorizonDays THEN today + 1 ELSE today
          /\ midnights' = IF k < HorizonDays THEN midnights + 1 ELSE midnights
    /\ plan_data' = <<>>
    /\ pc' = "plan"
    /\ UNCHANGED <<inp, rng, vwc, area_m2, advice, status, weather_d, prev>>
    /\ UNCHANGED calcVars

\* lines 141-142 of one iteration: the row's etc and liters before rounding
plan_etc(stage, eto_d) == crop_etc(stage, eto_d)

\* mutant: the row adds today's moisture deficit, as the advice does
plan_liters_with_deficit(etc_mm_d, area) == FxTimes(advice.deficit_mm + etc_mm_d, area)

plan_liters(etc_mm_d, area) == FxTimes(etc_mm_d, area)

\* lines 135-143: one iteration of the loop
PlanDay ==
    /\ pc = "plan"
    /\ Len(plan_data) < Len(dates)
    /\ LET d      == dates[Len(plan_data) + 1]
           tmin_d == inp.tmin + random_uniform(rng)
           tmax_d == inp.tmax + random_uniform(rng_next(rng))
           e      == simple_eto_mm_per_day(tmin_d, tmax_d)
           etc_mm_d == plan_etc(inp.stage, e.eto)
           liters_d == plan_liters(etc_mm_d, area_m2)
       IN  /\ rng' = rng_next(rng_next(rng))
           /\ weather_d' = Append(weather_d, <<tmin_d, tmax_d>>)
           /\ IF e.raised
              THEN /\ pc' = "failed"
                   /\ plan_data' = plan_data
              ELSE /\ pc' = "plan"
                   /\ plan_data' = Append(plan_data,
                          [date |-> strftime(d), etc |-> round2(etc_mm_d),
                           liters |-> round2(liters_d)])
    /\ UNCHANGED <<inp, vwc, area_m2, advice, status, today, midnights, dates, prev>>
    /\ UNCHANGED calcVars

\* lines 145-151: the table is shown and offered as CSV
ShowPlan ==
    /\ pc = "plan"
    /\ Len(plan_data) = Len(dates)
    /\ pc' = "done"
    /\ UNCHANGED <<inp, rng, vwc, area_m2, advice, status, today, midnights, dates,
                   plan_data, weather_d, prev>>
    /\ UNCHANGED calcVars

NoCalcArgs ==
    [soil_type |-> "Sandy", stage |-> "Initial", current_vwc |-> 0, target_low |-> 0,
     tmin_c |-> 0, tmax_c |-> 0]

NoEto == [called |-> FALSE, raised |-> FALSE, eto |-> 0]

NoAreaRet == [called |-> FALSE, value |-> 0, unit |-> "m2", ret |-> FxInt(0)]

NoNeed == [called |-> FALSE, area |-> FxInt(0), ret |-> NoAdvice]

CalcIdle ==
    /\ args = NoCalcArgs
    /\ eto_ret = NoEto
    /\ area_ret = NoAreaRet
    /\ need_ret = NoNeed
    /\ need_prev = NoNeed

Init ==
    /\ pc = "idle"
    /\ inp = Defaults
    /\ rng \in 0..(RngMod - 1)
    /\ vwc = 0
    /\ area_m2 = NoArea
    /\ advice = NoAdvice
    /\ status = "none"
    /\ today \in StartDays
    /\ midnights = 0
    /\ dates = <<>>
    /\ plan_data = <<>>
    /\ weather_d = <<>>
    /\ prev = NoPrev
    /\ CalcIdle

Next ==
    \/ ChangeSoil
    \/ ChangeArea
    \/ ChangeStage
    \/ ChangeTemps
    \/ ChangeMoisture
    \/ Rerun
    \/ Advisory
    \/ BuildDates
    \/ PlanDay
    \/ ShowPlan

Spec == Init /\ [][Next]_vars

----------------------------------------------------------------------------
(* The helper functions on their own: the arguments are fixed at the start *)
(* and each action is one call.                                            *)

CalcVwcs == {0, 1800, 6000}

CalcTmins == {-300, 200}

CalcTmaxs == {-200, 200, 330}

CalcAreaValues == {0, 25, 100}

CalcUnits == Units \cup {"bigha"}

CalcAreas == {FxInt(-1), FxInt(0), <<1011, 7141, 560, 0>>}

ProgIdle ==
    /\ pc = "idle"
    /\ inp = Defaults
    /\ rng = 0
    /\ vwc = 0
    /\ area_m2 = NoArea
    /\ advice = NoAdvice
    /\ status = "none"
    /\ today = 738942
    /\ midnights = 0
    /\ dates = <<>>
    /\ plan_data = <<>>
    /\ weather_d = <<>>
    /\ prev = NoPrev

InitCalc ==
    /\ ProgIdle
    /\ \E so \in Soils, sg \in Stages, v \in CalcVwcs, zero \in BOOLEAN,
          tn \in CalcTmins, tx \in CalcTmaxs :
          args = [soil_type |-> so, stage |-> sg, current_vwc |-> v,
                  target_low |-> IF zero THEN 0 ELSE SOIL_TARGET_RANGE(so)[1],
                  tmin_c |-> tn, tmax_c |-> tx]
    /\ eto_ret = NoEto
    /\ area_ret = NoAreaRet
    /\ need_ret = NoNeed
    /\ need_prev = NoNeed

CallEto ==
    /\ LET e == simple_eto_mm_per_day(args.tmin_c, args.tmax_c)
       IN  eto_ret' = [called |-> TRUE, raised |-> e.raised, eto |-> e.eto]
    /\ UNCHANGED <<args, area_ret, need_ret, need_prev>>
    /\ UNCHANGED progVars

CallArea ==
    /\ \E v \in CalcAreaValues, u \in CalcUnits :
          area_ret' = [called |-> TRUE, value |-> v, unit |-> u,
                       ret |-> area_to_sq_m(v, u)]
    /\ UNCHANGED <<args, eto_ret, need_ret, need_prev>>
    /\ UNCHANGED progVars

CallNeed ==
    /\ \E a \in CalcAreas :
          need_ret' = [called |-> TRUE, area |-> a,
                       ret |-> irrigation_need_liters(args.soil_type, args.stage,
                                   args.current_vwc, args.target_low, a,
                                   args.tmin_c, args.tmax_c)]
    /\ need_prev' = need_ret
    /\ UNCHANGED <<args, eto_ret, area_ret>>
    /\ UNCHANGED progVars

NextCalc ==
    \/ CallEto
    \/ CallArea
    \/ CallNeed

SpecCalc == InitCalc /\ [][NextCalc]_vars

----------------------------------------------------------------------------
(* Properties of the helper functions, checked under SpecCalc.             *)

\* C2 (as claimed): irrigation_need_liters with area_m2 <= 0 returns liters = 0
\* without raising, and the returned liters is >= 0 for every area.
C2_ZeroLitersForNonPositiveArea ==
    need_ret.called =>
        /\ ~need_ret.ret.raised
        /\ FxLeq(need_ret.area, FxInt(0)) => need_ret.ret.liters = 0
        /\ need_ret.ret.liters >= 0

\* C6: deficit_mm is 0 whenever current_vwc >= target_low, and is never negative.
C6_DeficitZeroAtOrAboveTarget ==
    need_ret.called =>
        /\ ~need_ret.ret.raised
        /\ need_ret.ret.deficit_mm >= 0
        /\ args.current_vwc >= args.target_low => need_ret.ret.deficit_mm = 0

C6_Witness ==
    /\ need_ret.called
    /\ args.target_low > 0
    /\ args.current_vwc >= args.target_low
    /\ need_ret.ret.deficit_mm = 0
    /\ need_ret.ret.etc_mm > 0

\* C7: with the other arguments fixed, liters is non-decreasing in area_m2: of two
\* calls, the one with the smaller area returns no more liters.
C7_LitersMonotoneInArea ==
    (need_ret.called /\ need_prev.called) =>
        /\ FxLeq(need_prev.area, need_ret.area) =>
               need_prev.ret.liters <= need_ret.ret.liters
        /\ FxLeq(need_ret.area, need_prev.area) =>
               need_ret.ret.liters <= need_prev.ret.liters

C7_Witness ==
    /\ need_ret.called
    /\ need_prev.called
    /\ need_prev.area = FxInt(-1)
    /\ need_ret.area = <<1011, 7141, 560, 0>>
    /\ need_prev.ret.liters < 0
    /\ need_ret.ret.liters > 0

\* C8: simple_eto_mm_per_day is >= 0 for tmax >= tmin and exactly 0 for
\* tmax = tmin, where etc_mm is then 0 for every growth stage.
C8_EtoNonNegativeAndZeroAtEqualTemps ==
    /\ eto_ret.called =>
          /\ ~eto_ret.raised
          /\ args.tmax_c >= args.tmin_c => eto_ret.eto >= 0
          /\ args.tmax_c = args.tmin_c => eto_ret.eto = 0
    /\ (need_ret.called /\ args.tmax_c = args.tmin_c) => need_ret.ret.etc_mm = 0

C8_Witness ==
    /\ eto_ret.called
    /\ need_ret.called
    /\ args.tmax_c = args.tmin_c
    /\ args.stage = "Flowering"
    /\ eto_ret.eto = 0
    /\ need_ret.ret.etc_mm = 0

\* C9: area_to_sq_m multiplies by 4046.8564224 for acres and by 10000.0 for
\* hectares, and returns the value unchanged for square metres and for any
\* unrecognized unit.  (value is in hundredths, so 100 * result = factor * value.)
C9_AreaConversion ==
    area_ret.called =>
        LET hundred == FxMulInt(area_ret.ret, 100)
        IN  /\ area_ret.unit = "acre" =>
                  hundred = FxMulInt(<<4046, 8564, 2240, 0>>, area_ret.value)
            /\ area_ret.unit = "hectare" =>
                  hundred = FxInt(10000 * area_ret.value)
            /\ area_ret.unit \notin {"acre", "hectare"} =>
                  hundred = FxInt(area_ret.value)
            /\ (area_ret.unit = "acre" /\ area_ret.value = 25) =>
                  area_ret.ret = <<1011, 7141, 560, 0>>
            /\ (area_ret.unit = "hectare" /\ area_ret.value = 100) =>
                  area_ret.ret = FxInt(10000)

C9_Witness ==
    /\ area_ret.called
    /\ area_ret.unit = "bigha"
    /\ area_ret.value = 25
    /\ area_ret.ret = <<0, 2500, 0, 0>>

----------------------------------------------------------------------------
(* Properties of the script, checked under Spec.                           *)

Shown == pc \in {"dates", "plan", "done"}

\* C1 (as claimed): the status is Sufficient for all vwc >= high, NeedsWater for
\* all vwc < low and Monitor otherwise.
C1_SufficientAtOrAboveHigh ==
    Shown =>
        LET range == SOIL_TARGET_RANGE(inp.soil_type)
        IN  status = IF vwc >= range[2] THEN "Sufficient"
                     ELSE IF vwc < range[1] THEN "NeedsWater"
                     ELSE "Monitor"

\* C1 (amended): for every soil type and every vwc in [0, 0.6] exactly one status
\* is shown: NeedsWater for vwc < low, Sufficient for vwc > high, and Monitor for
\* low <= vwc <= high, the upper end of the range included.
C1_StatusClassification ==
    Shown =>
        LET low  == SOIL_TARGET_RANGE(inp.soil_type)[1]
            high == SOIL_TARGET_RANGE(inp.soil_type)[2]
        IN  /\ 0 <= vwc /\ vwc <= 6000
            /\ status \in {"NeedsWater", "Sufficient", "Monitor"}
            /\ status = "NeedsWater" <=> vwc < low
            /\ status = "Sufficient" <=> vwc > high
            /\ status = "Monitor" <=> (low <= vwc /\ vwc <= high)

C1_Witness ==
    /\ Shown
    /\ vwc = SOIL_TARGET_RANGE(inp.soil_type)[2]
    /\ status = "Monitor"

RECURSIVE rng_iter(_, _)
rng_iter(s, n) == IF n = 0 THEN s ELSE rng_iter(rng_next(s), n - 1)

\* C3 (as claimed): two runs with identical inputs (and seed) show the identical
\* advice and the identical ETc and liters in every row of the plan.
C3_IdenticalRunsIdenticalOutput ==
    (pc = "done" /\ prev.valid) =>
        /\ advice = prev.advice
        /\ values_of(plan_data) = prev.plan

\* C3 (amended): two runs with identical inputs show the identical advice; in the
\* simulate mode, where the seed is entered, they also show identical ETc and
\* liters in every plan row, and the jitter draws depend on that seed alone.  In
\* the manual mode the plan rows follow the generator's ambient state.
C3_ReproducibleUnderSeed ==
    /\ (pc = "done" /\ prev.valid) =>
          /\ advice = prev.advice
          /\ inp.mode = "simulate" => values_of(plan_data) = prev.plan
    /\ (inp.mode = "simulate" /\ pc \in {"plan", "done"}) =>
          \A k \in 1..Len(weather_d) :
              weather_d[k] =
                  <<inp.tmin + random_uniform(rng_iter(inp.seed % RngMod, 2 * k - 1)),
                    inp.tmax + random_uniform(rng_iter(inp.seed % RngMod, 2 * k))>>

C3_Witness ==
    /\ pc = "done"
    /\ prev.valid
    /\ inp.mode = "simulate"
    /\ Len(plan_data) = HorizonDays
    /\ plan_data[1].liters > 0
    /\ plan_data[1].liters # plan_data[2].liters
    /\ values_of(plan_data) = prev.plan

is_leap(y) == y % 4 = 0 /\ (y % 100 # 0 \/ y % 400 = 0)

days_in(m, y) ==
    IF m = 2 THEN (IF is_leap(y) THEN 29 ELSE 28)
    ELSE IF m \in {4, 6, 9, 11} THEN 30 ELSE 31

\* the calendar date after <<day, month, year>>
next_calendar_day(d) ==
    IF d[1] < days_in(d[2], d[3]) THEN <<d[1] + 1, d[2], d[3]>>
    ELSE IF d[2] < 12 THEN <<1, d[2] + 1, d[3]>>
    ELSE <<1, 1, d[3] + 1>>

\* C4 (as claimed): the loop produces exactly 7 rows, one per iteration, and
\* each row's date is the calendar day after the previous row's.
C4_SevenConsecutiveDates ==
    /\ pc = "plan" => Len(plan_data) <= HorizonDays
    /\ pc = "done" => Len(plan_data) = HorizonDays
    /\ \A k \in 1..(Len(plan_data) - 1) :
          plan_data[k + 1].date = next_calendar_day(plan_data[k].date)

\* the dates are consecutive in every run during which midnight does not fall
\* between two reads of the clock
C4_ConsecutiveWhenClockReadOnOneDay ==
    (\A j \in 1..Len(dates) : dates[j] = dates[1] + (j - 1)) =>
        \A k \in 1..(Len(plan_data) - 1) :
            plan_data[k + 1].date = next_calendar_day(plan_data[k].date)

\* C5: every plan row is kc(stage) * eto(tmin_i, tmax_i) * area_m2 with no deficit
\* term, a value of stage, area, base temperatures and jitter alone, while
\* today's advice is (deficit_mm + etc_mm) * area_m2.
C5_PlanOmitsDeficit ==
    /\ \A k \in 1..Len(plan_data) :
          LET eto_k == simple_eto_mm_per_day(weather_d[k][1], weather_d[k][2]).eto
              etc_k == (KC_STAGE(inp.stage) * eto_k) \div 100
          IN  /\ plan_data[k].etc = round2(etc_k)
              /\ plan_data[k].liters = round2(FxTimes(etc_k, area_m2))
    /\ Shown =>
          LET low == SOIL_TARGET_RANGE(inp.soil_type)[1]
              frac == (Max(low - vwc, 0) * 100000) \div (low * 100)
              deficit == (frac * SOIL_RAW_MM_PER_M(inp.soil_type)
                               * ROOT_DEPTH_M(inp.stage)) \div 10
          IN  /\ advice.deficit_mm = deficit
              /\ advice.liters = FxTimes(deficit + advice.etc_mm, area_m2)

C5_Witness ==
    /\ pc = "done"
    /\ advice.deficit_mm > 0
    /\ area_m2[1] > 0
    /\ plan_data[1].liters > 0
    /\ advice.liters > FxTimes(advice.etc_mm, area_m2)

\* C10: neither the advice nor any plan day ends in an error, whatever the
\* temperatures, moisture and area; a day whose jittered tmax is below its tmin
\* gets ETc = 0 and liters = 0.  (The one run that stops is the one given a
\* negative seed, which np.random.seed rejects before the advice is computed.)
C10_NoErrorAndInvertedPairIsZero ==
    /\ ~advice.raised
    /\ pc = "failed" => (inp.mode = "simulate" /\ inp.seed < 0 /\ status = "none")
    /\ pc \in {"plan", "done"} => Len(plan_data) = Len(weather_d)
    /\ \A k \in 1..Len(plan_data) :
          weather_d[k][2] < weather_d[k][1] =>
              (plan_data[k].etc = 0 /\ plan_data[k].liters = 0)
    /\ (Shown /\ inp.tmax <= inp.tmin) => advice.etc_mm = 0
    /\ (Shown /\ inp.area_value = 0) => advice.liters = 0

C10_Witness ==
    /\ pc = "done"
    /\ inp.tmin <= inp.tmax
    /\ area_m2[1] > 0
    /\ \E k \in 1..Len(plan_data) :
          /\ weather_d[k][2] < weather_d[k][1]
          /\ plan_data[k].liters = 0
    /\ \E k \in 1..Len(plan_data) : plan_data[k].liters > 0

====
